---------------------------- MODULE Spec2Model ----------------------------
(***************************************************************************)
(* Model of the documentation-ingestion backend (backend/app):             *)
(*   - core/rate_limiter.py : check_rate_limit, a sliding window kept in a *)
(*     Redis sorted set (SpecLimiter; SpecCap when Redis never fails);     *)
(*   - core/log_store.py    : append_log / subscribe, the per-project      *)
(*     progress channel (SpecStream, with one pipeline);                   *)
(*   - api/v1/projects.py   : create_project, delete_project and the       *)
(*     background pipeline run_scrape_and_parse_job (Spec), and the cache  *)
(*     check of create_project on a stored history (SpecCache).            *)
(*   - services/scraper.py  : scrape_page / scrape_docs (SpecCrawl);       *)
(*   - services/llm_parser.py : _merge_schemas (SpecMerge), _chunk_text    *)
(*     (SpecChunk), the direct path of parse_documentation (SpecOpenApi),  *)
(*     its two paths and the chunk loop (SpecExtract) and                  *)
(*     suggest_integration_paths (SpecAdvisor).                            *)
(* Every specification uses its own variables and leaves the others at the *)
(* values its Init gives them.                                             *)
(***************************************************************************)
EXTENDS Integers, Sequences, FiniteSets, TLC

VARIABLES
    clock,        \* time.time(), in seconds (limiter)
    redis,        \* ip -> sorted set stored under the key rate_limit:{ip}
    redis_ttl,    \* ip -> clock value at which the key expires (-1: no expiry set)
    rl,           \* call -> the locals of one invocation of check_rate_limit
    rl_last,      \* the invocation that returned last: what it saw and returned
    logs,         \* _logs: project id -> list of messages (log_store.py)
    listeners,    \* _listeners: project id -> list of queues, one per subscriber
    sub,          \* subscriber -> the state of its subscribe() generator
    projects,     \* the projects table (with the endpoints rows of each project)
    job,          \* project id -> the state of its run_scrape_and_parse_job task
    hours,        \* the clock of the record store, in units of twelve hours
    cp_last,      \* the response of the create_project request served last
    crawl,        \* the locals of one invocation of scrape_docs (scraper.py)
    call          \* one call of a function of llm_parser.py: input and result

limiter_vars == <<clock, redis, redis_ttl, rl, rl_last>>
channel_vars == <<logs, listeners, sub>>
job_vars == <<projects, job, hours, cp_last>>

aux_vars == <<crawl, call>>

vars == <<limiter_vars, channel_vars, job_vars, aux_vars>>

-----------------------------------------------------------------------------
(* Bounds                                                                  *)

\* Invocations of check_rate_limit in one behaviour.
MaxCalls == 3
\* Seconds the clock may advance.
MaxClock == 3
\* The limit and window_seconds arguments (10 and 3600 at the call site in
\* create_project), scaled down.
Limit == 2
WindowSeconds == 2

Ips == {"ip1", "ip2"}
Calls == 1..MaxCalls

-----------------------------------------------------------------------------
(* core/rate_limiter.py                                                    *)

\* Redis ZREMRANGEBYSCORE key lo hi: both ends inclusive.
ZRemRangeByScore_Exclusive(z, lo, hi) == {e \in z : ~(lo <= e.score /\ e.score < hi)}

ZRemRangeByScore(z, lo, hi) == {e \in z : ~(lo <= e.score /\ e.score <= hi)}

\* Redis ZCARD key.
ZCard(z) == Cardinality(z)

\* Redis ZADD key {member: score}: a member already present only has its
\* score replaced.
ZAdd(z, member, score) ==
    {e \in z : e.member # member} \cup {[member |-> member, score |-> score]}

\* The four commands queued on the pipeline, run as one MULTI/EXEC batch.
\* Gives the new sorted set and results[1], the ZCARD reply.
PipelineExecute(z, now, window_seconds) ==
    LET window_start == now - window_seconds
        trimmed == ZRemRangeByScore(z, 0, window_start)
    IN  [zset  |-> ZAdd(trimmed, ToString(now), now),
         count |-> ZCard(trimmed)]

\* except Exception: fail open.
RateLimitOnError_Closed(window_seconds) ==
    [allowed |-> FALSE, retry_after |-> window_seconds, raised |-> FALSE]

RateLimitOnError(window_seconds) ==
    [allowed |-> TRUE, retry_after |-> 0, raised |-> FALSE]

\* if count >= limit: return False, window_seconds; return True, 0
RateLimitDecision(count, limit, window_seconds) ==
    IF count >= limit
    THEN [allowed |-> FALSE, retry_after |-> window_seconds, raised |-> FALSE]
    ELSE [allowed |-> TRUE, retry_after |-> 0, raised |-> FALSE]

\* An invocation: where it is, its arguments, the clock it read, whether
\* its batch was executed, and whether it returned True.
RlIdle == [pc |-> "idle", ip |-> "ip1", now |-> 0, recorded |-> FALSE,
           allowed |-> FALSE]

\* The invocations of the same origin whose batch reached Redis before c's.
EarlierCalls(c) ==
    {d \in Calls \ {c} : rl[d].recorded /\ rl[d].ip = rl[c].ip}

\* What an invocation leaves behind when it returns. count is results[1]
\* (0 when the batch was not executed); earlier are the timestamps of the
\* earlier invocations of the origin, prior how many of these lie inside
\* the window of this one.
Returned(c, ip, now, count, failed, result) ==
    [call |-> c, ip |-> ip, now |-> now, count |-> count, failed |-> failed,
     result |-> result,
     earlier |-> {rl[d].now : d \in EarlierCalls(c)},
     prior |-> Cardinality({d \in EarlierCalls(c) : rl[d].now > now - WindowSeconds})]

NoneReturned ==
    [call |-> 0, ip |-> "ip1", now |-> 0, count |-> 0, failed |-> "no",
     result |-> RateLimitOnError(0), earlier |-> {}, prior |-> 0]

\* check_rate_limit up to `await pipe.execute()`: the client is made, the
\* clock is read and the pipeline is queued. Calls are numbered in the order
\* in which they start.
check_rate_limit_begin(c, ip) ==
    /\ rl[c].pc = "idle"
    /\ \A d \in Calls : d < c => rl[d].pc # "idle"
    /\ rl' = [rl EXCEPT ![c] = [@ EXCEPT !.pc = "execute", !.ip = ip, !.now = clock]]
    /\ UNCHANGED <<clock, redis, redis_ttl, rl_last>>
    /\ UNCHANGED <<channel_vars, job_vars, aux_vars>>

\* The import, aioredis.from_url or r.pipeline() raises: the except branch
\* returns.
check_rate_limit_connect_error(c, ip) ==
    /\ rl[c].pc = "idle"
    /\ \A d \in Calls : d < c => rl[d].pc # "idle"
    /\ rl' = [rl EXCEPT ![c] = [@ EXCEPT !.pc = "done", !.ip = ip, !.now = clock,
                                        !.allowed = RateLimitOnError(WindowSeconds).allowed]]
    /\ rl_last' = Returned(c, ip, clock, 0, "connect", RateLimitOnError(WindowSeconds))
    /\ UNCHANGED <<clock, redis, redis_ttl>>
    /\ UNCHANGED <<channel_vars, job_vars, aux_vars>>

\* `results = await pipe.execute()`: the batch is applied atomically, and
\* EXPIRE makes the key expire window_seconds from the server's present.
ApplyPipeline(c, result) ==
    LET out == PipelineExecute(redis[rl[c].ip], rl[c].now, WindowSeconds)
    IN  /\ redis' = [redis EXCEPT ![rl[c].ip] = out.zset]
        /\ redis_ttl' = [redis_ttl EXCEPT ![rl[c].ip] = clock + WindowSeconds]
        /\ rl' = [rl EXCEPT ![c] = [@ EXCEPT !.pc = "done", !.recorded = TRUE,
                                            !.allowed = result.allowed]]

\* The batch executes, `await r.aclose()` returns (it touches no shared
\* state), and the count decides.
check_rate_limit_return(c) ==
    /\ rl[c].pc = "execute"
    /\ LET out == PipelineExecute(redis[rl[c].ip], rl[c].now, WindowSeconds)
           result == RateLimitDecision(out.count, Limit, WindowSeconds)
       IN  /\ ApplyPipeline(c, result)
           /\ rl_last' = Returned(c, rl[c].ip, rl[c].now, out.count, "no", result)
    /\ UNCHANGED clock
    /\ UNCHANGED <<channel_vars, job_vars, aux_vars>>

\* `await pipe.execute()` raises: nothing is applied, the except branch returns.
check_rate_limit_execute_error(c) ==
    /\ rl[c].pc = "execute"
    /\ rl' = [rl EXCEPT ![c] = [@ EXCEPT !.pc = "done",
                                        !.allowed = RateLimitOnError(WindowSeconds).allowed]]
    /\ rl_last' = Returned(c, rl[c].ip, rl[c].now, 0, "execute",
                           RateLimitOnError(WindowSeconds))
    /\ UNCHANGED <<clock, redis, redis_ttl>>
    /\ UNCHANGED <<channel_vars, job_vars, aux_vars>>

\* The batch executes and then `await r.aclose()` raises: the except branch
\* returns although the attempt was recorded.
check_rate_limit_close_error(c) ==
    /\ rl[c].pc = "execute"
    /\ ApplyPipeline(c, RateLimitOnError(WindowSeconds))
    /\ LET out == PipelineExecute(redis[rl[c].ip], rl[c].now, WindowSeconds)
       IN  rl_last' = Returned(c, rl[c].ip, rl[c].now, out.count, "close",
                               RateLimitOnError(WindowSeconds))
    /\ UNCHANGED clock
    /\ UNCHANGED <<channel_vars, job_vars, aux_vars>>

\* One second passes; Redis drops the keys whose expiry is reached.
Tick ==
    /\ clock < MaxClock
    /\ clock' = clock + 1
    /\ redis' = [ip \in Ips |->
                    IF redis_ttl[ip] >= 0 /\ redis_ttl[ip] <= clock + 1
                    THEN {} ELSE redis[ip]]
    /\ redis_ttl' = [ip \in Ips |->
                    IF redis_ttl[ip] >= 0 /\ redis_ttl[ip] <= clock + 1
                    THEN -1 ELSE redis_ttl[ip]]
    /\ UNCHANGED <<rl, rl_last>>
    /\ UNCHANGED <<channel_vars, job_vars, aux_vars>>

-----------------------------------------------------------------------------
(* core/log_store.py                                                       *)

ProjectIds == {"p1", "p2"}
Subs == {"s1", "s2"}

\* Heartbeats one subscriber is sent.
MaxPings == 1

Sentinels == {"DONE", "FAILED"}

InSeq(x, seq) == \E i \in 1..Len(seq) : seq[i] = x

\* list.remove(x)
Remove(seq, x) == SelectSeq(seq, LAMBDA y : y # x)

\* append_log(project_id, m) for each m of msgs in turn, with no await in
\* between: the message goes on the list, then on the queue of every
\* listener of the project.
append_log_SkipQueues(project_id, msgs) ==
    /\ logs' = [logs EXCEPT ![project_id] = @ \o msgs]
    /\ sub' = sub

append_log(project_id, msgs) ==
    /\ logs' = [logs EXCEPT ![project_id] = @ \o msgs]
    /\ sub' = [s \in Subs |->
                 IF InSeq(s, listeners[project_id])
                 THEN [sub[s] EXCEPT !.queue = @ \o msgs]
                 ELSE sub[s]]

SubIdle == [pc |-> "idle", project |-> "p1", idx |-> 0, snap |-> 0,
            queue |-> <<>>, out |-> <<>>]

Pings(s) == Cardinality({i \in 1..Len(sub[s].out) : sub[s].out[i] = "ping"})

\* subscribe() from its start to its first suspension: the queue is
\* registered, then the replay loop yields the first stored message, or,
\* with nothing stored, the generator waits on its queue. Each message m is
\* delivered as the frame "data: m\n\n"; out lists the messages delivered.
subscribe(s, project_id) ==
    /\ sub[s].pc = "idle"
    /\ listeners' = [listeners EXCEPT ![project_id] = Append(@, s)]
    /\ sub' = [sub EXCEPT ![s] =
                 IF logs[project_id] = <<>>
                 THEN [SubIdle EXCEPT !.pc = "live", !.project = project_id]
                 ELSE [SubIdle EXCEPT !.pc = "replay", !.project = project_id,
                                      !.idx = 1, !.snap = Len(logs[project_id]),
                                      !.out = <<logs[project_id][1]>>]]
    /\ UNCHANGED <<logs, limiter_vars, aux_vars, job_vars>>

\* The replay loop resumes and yields the next element of the live list.
subscribe_replay_next(s) ==
    /\ sub[s].pc = "replay"
    /\ sub[s].idx < Len(logs[sub[s].project])
    /\ sub' = [sub EXCEPT ![s].idx = @ + 1,
                          ![s].out = Append(@, logs[sub[s].project][sub[s].idx + 1])]
    /\ UNCHANGED <<logs, listeners, limiter_vars, aux_vars, job_vars>>

\* The replay loop finds the list exhausted: the generator enters
\* `while True` and waits on its queue.
subscribe_replay_end(s) ==
    /\ sub[s].pc = "replay"
    /\ sub[s].idx >= Len(logs[sub[s].project])
    /\ sub' = [sub EXCEPT ![s].pc = "live"]
    /\ UNCHANGED <<logs, listeners, limiter_vars, aux_vars, job_vars>>

\* After a sentinel: break.
BreaksOn_Never(message) == FALSE

BreaksOn(message) == message = "DONE" \/ message = "FAILED"

\* queue.get() returns a message: it is yielded; a sentinel ends the loop
\* and the finally clause removes the queue.
subscribe_receive(s) ==
    /\ sub[s].pc = "live"
    /\ sub[s].queue # <<>>
    /\ LET message == Head(sub[s].queue)
       IN  /\ sub' = [sub EXCEPT ![s].queue = Tail(@),
                                 ![s].out = Append(@, message),
                                 ![s].pc = IF BreaksOn(message) THEN "closed" ELSE @]
           /\ listeners' = IF BreaksOn(message)
                           THEN [listeners EXCEPT ![sub[s].project] = Remove(@, s)]
                           ELSE listeners
    /\ UNCHANGED <<logs, limiter_vars, aux_vars, job_vars>>

\* asyncio.TimeoutError after 30 s with an empty queue: a heartbeat.
subscribe_timeout(s) ==
    /\ sub[s].pc = "live"
    /\ sub[s].queue = <<>>
    /\ Pings(s) < MaxPings
    /\ sub' = [sub EXCEPT ![s].out = Append(@, "ping")]
    /\ UNCHANGED <<logs, listeners, limiter_vars, aux_vars, job_vars>>

\* The client goes away and the generator is closed where it is suspended:
\* inside the try (waiting on the queue or at a yield of the while loop)
\* the finally clause removes the queue; at the yield of the replay loop,
\* which is outside the try, nothing removes it.
subscribe_disconnect(s) ==
    /\ sub[s].pc \in {"replay", "live"}
    /\ sub' = [sub EXCEPT ![s] = [SubIdle EXCEPT !.pc = "gone",
                                                 !.project = sub[s].project,
                                                 !.queue = sub[s].queue]]
    /\ listeners' = IF sub[s].pc = "live"
                    THEN [listeners EXCEPT ![sub[s].project] = Remove(@, s)]
                    ELSE listeners
    /\ UNCHANGED <<logs, limiter_vars, aux_vars, job_vars>>

ChannelUnused ==
    /\ logs = [p \in ProjectIds |-> <<>>]
    /\ listeners = [p \in ProjectIds |-> <<>>]
    /\ sub = [s \in Subs |-> SubIdle]

-----------------------------------------------------------------------------
(* api/v1/projects.py: run_scrape_and_parse_job                            *)

\* scrape_docs(url, max_pages=3)
MAX_PAGES == 3
\* len(scrape_results): two of the lengths scrape_docs may return, no page
\* and max_pages pages.
PageCounts == {0, MAX_PAGES}
\* len(api_schema.endpoints), as parse_documentation may return it.
EndpointCounts == {0, 2}

NoRow == [status |-> "ABSENT", base_url |-> "", name |-> "", use_case |-> "",
          created_at |-> 0, raw_content |-> FALSE,
          integration_suggestions |-> FALSE, api_name |-> FALSE, endpoints |-> 0]

\* A task: where it is suspended, its use_case argument, what scrape_docs
\* and parse_documentation returned, the exception caught, and the hour at
\* which status COMPLETED was committed.
NoTask == [pc |-> "none", use_case |-> "", pages |-> -1, endpoints |-> -1,
           error |-> "", completed_at |-> -1]

StartMsg == "Starting documentation scrape..."
ScrapedMsg(n) == "Scraped " \o ToString(n) \o " page(s) successfully"
AnalyzingMsg == "Analyzing documentation with AI..."
DiscoveredMsg(n) == "Discovered " \o ToString(n) \o " endpoint(s)"
GeneratingMsg == "Generating integration path suggestions..."
SavingMsg == "Saving results to database..."
DoneMsg == "Done! SDK ready for download."
ErrorMsg(e) == "Error: " \o e

Exists(j) == projects[j].status # "ABSENT"

\* The awaits of the try block that may raise: the first select, the
\* commits, and parse_documentation (which builds the model client outside
\* its own try). scrape_docs and suggest_integration_paths catch or raise
\* nothing.
CommitPcs == {"commit_scraping", "commit_raw", "commit_parsing",
              "commit_suggestions", "commit_completed"}
RaisingPcs_AfterDone == {"queued", "parse", "done"} \cup CommitPcs

RaisingPcs == {"queued", "parse"} \cup CommitPcs

\* The status each commit persists.
StatusWritten_Swapped(pc) ==
    CASE pc = "commit_scraping" -> "PARSING"
      [] pc = "commit_parsing" -> "SCRAPING"
      [] pc = "commit_completed" -> "COMPLETED"
      [] pc = "h_commit" -> "FAILED"

StatusWritten(pc) ==
    CASE pc = "commit_scraping" -> "SCRAPING"
      [] pc = "commit_parsing" -> "PARSING"
      [] pc = "commit_completed" -> "COMPLETED"
      [] pc = "h_commit" -> "FAILED"

\* What the actions of the pipeline leave alone.
RunFrame == UNCHANGED <<listeners, hours, cp_last, limiter_vars, aux_vars>>

\* except Exception as e: the two append_log calls, up to the await of the
\* select that re-fetches the project.
Fail_SentinelFirst(j, e) ==
    /\ append_log(j, <<"FAILED", ErrorMsg(e)>>)
    /\ job' = [job EXCEPT ![j].pc = "h_fetch", ![j].error = e]
    /\ UNCHANGED projects
    /\ RunFrame

Fail(j, e) ==
    /\ append_log(j, <<ErrorMsg(e), "FAILED">>)
    /\ job' = [job EXCEPT ![j].pc = "h_fetch", ![j].error = e]
    /\ UNCHANGED projects
    /\ RunFrame

\* The task starts; the select returns and scalar_one() gives the project
\* (or raises NoResultFound); "Starting" is logged and the commit of
\* status SCRAPING is awaited.
run_begin(j) ==
    /\ job[j].pc = "queued"
    /\ IF Exists(j)
       THEN /\ append_log(j, <<StartMsg>>)
            /\ job' = [job EXCEPT ![j].pc = "commit_scraping"]
            /\ UNCHANGED projects
            /\ RunFrame
       ELSE Fail(j, "NoResultFound")

\* An await of the try block raises.
run_raise(j) ==
    /\ job[j].pc \in RaisingPcs
    /\ Fail(j, IF job[j].pc = "parse" THEN "llm" ELSE "db")

\* A commit finds the row deleted: the UPDATE matches no row and raises.
run_commit_stale(j) ==
    /\ job[j].pc \in CommitPcs
    /\ ~Exists(j)
    /\ Fail(j, "StaleDataError")

\* The commit of status SCRAPING returns; scrape_docs is awaited.
run_commit_scraping(j) ==
    /\ job[j].pc = "commit_scraping"
    /\ Exists(j)
    /\ projects' = [projects EXCEPT ![j].status = StatusWritten("commit_scraping")]
    /\ job' = [job EXCEPT ![j].pc = "scrape"]
    /\ UNCHANGED <<logs, sub>>
    /\ RunFrame

\* scrape_docs returns n results (none when every fetch failed); the count
\* is logged and the commit of raw_content is awaited.
run_scrape(j, n) ==
    /\ job[j].pc = "scrape"
    /\ append_log(j, <<ScrapedMsg(n)>>)
    /\ job' = [job EXCEPT ![j].pc = "commit_raw", ![j].pages = n]
    /\ UNCHANGED projects
    /\ RunFrame

\* The commit of raw_content returns; "Analyzing" is logged and the commit
\* of status PARSING is awaited.
run_commit_raw(j) ==
    /\ job[j].pc = "commit_raw"
    /\ Exists(j)
    /\ projects' = [projects EXCEPT ![j].raw_content = TRUE]
    /\ append_log(j, <<AnalyzingMsg>>)
    /\ job' = [job EXCEPT ![j].pc = "commit_parsing"]
    /\ RunFrame

\* The commit of status PARSING returns; parse_documentation is awaited.
run_commit_parsing(j) ==
    /\ job[j].pc = "commit_parsing"
    /\ Exists(j)
    /\ projects' = [projects EXCEPT ![j].status = StatusWritten("commit_parsing")]
    /\ job' = [job EXCEPT ![j].pc = "parse"]
    /\ UNCHANGED <<logs, sub>>
    /\ RunFrame

\* parse_documentation returns a schema of n endpoints; two messages are
\* logged, the suggestions are computed and their commit is awaited.
run_parse(j, n) ==
    /\ job[j].pc = "parse"
    /\ append_log(j, <<DiscoveredMsg(n), GeneratingMsg>>)
    /\ job' = [job EXCEPT ![j].pc = "commit_suggestions", ![j].endpoints = n]
    /\ UNCHANGED projects
    /\ RunFrame

\* The commit of integration_suggestions returns; "Saving" is logged, the
\* schema fields, the endpoint rows and status COMPLETED are put in the
\* session and their commit is awaited.
run_commit_suggestions(j) ==
    /\ job[j].pc = "commit_suggestions"
    /\ Exists(j)
    /\ projects' = [projects EXCEPT ![j].integration_suggestions = TRUE]
    /\ append_log(j, <<SavingMsg>>)
    /\ job' = [job EXCEPT ![j].pc = "commit_completed"]
    /\ RunFrame

\* The last commit returns: schema, endpoints and status COMPLETED are
\* persisted together; then "Done" and the DONE sentinel are logged.
run_commit_completed_StatusFirst(j) ==
    /\ job[j].pc = "commit_completed"
    /\ Exists(j)
    /\ projects' = [projects EXCEPT ![j].status = StatusWritten("commit_completed")]
    /\ append_log(j, <<DoneMsg, "DONE">>)
    /\ job' = [job EXCEPT ![j].pc = "done", ![j].completed_at = hours]
    /\ RunFrame

run_commit_completed(j) ==
    /\ job[j].pc = "commit_completed"
    /\ Exists(j)
    /\ projects' = [projects EXCEPT ![j].api_name = TRUE,
                                    ![j].use_case = job[j].use_case,
                                    ![j].endpoints = job[j].endpoints,
                                    ![j].status = StatusWritten("commit_completed")]
    /\ append_log(j, <<DoneMsg, "DONE">>)
    /\ job' = [job EXCEPT ![j].pc = "done", ![j].completed_at = hours]
    /\ RunFrame

\* In the except branch the select returns: with a project, status FAILED
\* is put in the session and the commit awaited; without, the task ends.
run_handler_fetch(j) ==
    /\ job[j].pc = "h_fetch"
    /\ job' = [job EXCEPT ![j].pc = IF Exists(j) THEN "h_commit" ELSE "done"]
    /\ UNCHANGED <<logs, sub, projects>>
    /\ RunFrame

\* The commit of status FAILED returns and the task ends.
run_handler_commit(j) ==
    /\ job[j].pc = "h_commit"
    /\ Exists(j)
    /\ projects' = [projects EXCEPT ![j].status = StatusWritten("h_commit")]
    /\ job' = [job EXCEPT ![j].pc = "done"]
    /\ UNCHANGED <<logs, sub>>
    /\ RunFrame

\* An await of the except branch raises: nothing catches it and the task
\* ends with the exception.
run_handler_raise(j) ==
    /\ job[j].pc \in {"h_fetch", "h_commit"}
    /\ job' = [job EXCEPT ![j].pc = "crashed"]
    /\ UNCHANGED <<logs, sub, projects>>
    /\ RunFrame

Pipeline(j) ==
    \/ run_begin(j)
    \/ run_raise(j)
    \/ run_commit_scraping(j)
    \/ \E n \in PageCounts : run_scrape(j, n)
    \/ run_commit_raw(j)
    \/ run_commit_parsing(j)
    \/ \E n \in EndpointCounts : run_parse(j, n)
    \/ run_commit_suggestions(j)
    \/ run_commit_completed(j)
    \/ run_handler_fetch(j)
    \/ run_handler_commit(j)
    \/ run_handler_raise(j)

-----------------------------------------------------------------------------
(* api/v1/projects.py: create_project, delete_project                      *)

\* timedelta(hours=24), scaled; the hours the clock of the store runs.
CacheHours == 2
MaxHours == 3

Url(scheme, netloc, path) == [scheme |-> scheme, netloc |-> netloc, path |-> path]

\* ProjectCreate bodies.
Payloads ==
    { [name |-> "n1", url |-> Url("https", "a", "/docs"), use_case |-> "u1",
       force_refresh |-> FALSE],
      [name |-> "n2", url |-> Url("https", "a", "/api"), use_case |-> "",
       force_refresh |-> FALSE],
      [name |-> "n2", url |-> Url("https", "a", "/api"), use_case |-> "",
       force_refresh |-> TRUE],
      [name |-> "n1", url |-> Url("http", "a", "/docs"), use_case |-> "u1",
       force_refresh |-> FALSE] }

\* f"{parsed.scheme}://{parsed.netloc}"
BaseUrl(url) == url.scheme \o "://" \o url.netloc

\* The WHERE clause of the cache check.
CacheCandidates_Strict(api_base_url) ==
    {j \in ProjectIds : /\ projects[j].base_url = api_base_url
                        /\ projects[j].status = "COMPLETED"
                        /\ projects[j].created_at > hours - CacheHours}

CacheCandidates(api_base_url) ==
    {j \in ProjectIds : /\ projects[j].base_url = api_base_url
                        /\ projects[j].status = "COMPLETED"
                        /\ projects[j].created_at >= hours - CacheHours}

\* order_by(created_at.desc()).limit(1): the rows scalar_one_or_none() may
\* give (one of the most recent candidates), none when the set is empty.
CacheLookup(api_base_url) ==
    {j \in CacheCandidates(api_base_url) :
        \A k \in CacheCandidates(api_base_url) :
            projects[k].created_at <= projects[j].created_at}

\* default=uuid.uuid4: an identifier no project has had.
NewIds == {j \in ProjectIds : job[j].pc = "none"}
uuid4 == CHOOSE j \in NewIds : TRUE

NoResponse == [kind |-> "none", id |-> "p1"]

\* The response of the last create_project call.
Respond(kind, id) == cp_last' = [kind |-> kind, id |-> id]

\* check_rate_limit denies: HTTP 429.
create_project_denied(payload) ==
    /\ Respond("429", cp_last.id)
    /\ UNCHANGED <<projects, job, hours, limiter_vars, aux_vars, channel_vars>>

\* A statement or commit of the handler raises: HTTP 500, nothing stored.
create_project_raise(payload) ==
    /\ Respond("500", cp_last.id)
    /\ UNCHANGED <<projects, job, hours, limiter_vars, aux_vars, channel_vars>>

\* check_rate_limit allows. Without force_refresh and with a cached row:
\* name and use_case are overwritten and the row is returned. Otherwise a
\* PENDING row is stored and the pipeline submitted as a background task.
create_project_HitRestarts(payload) ==
    LET api_base_url == BaseUrl(payload.url)
        found == IF payload.force_refresh THEN {} ELSE CacheLookup(api_base_url)
    IN  /\ IF found # {}
           THEN \E cached \in found :
                  /\ projects' = [projects EXCEPT ![cached].name = payload.name,
                                                  ![cached].use_case = payload.use_case,
                                                  ![cached].status = "PENDING"]
                  /\ Respond("cached", cached)
                  /\ job' = [job EXCEPT ![cached].pc = "queued"]
           ELSE /\ NewIds # {}
                /\ projects' = [projects EXCEPT ![uuid4] =
                                  [NoRow EXCEPT !.status = "PENDING",
                                                !.name = payload.name,
                                                !.base_url = api_base_url,
                                                !.use_case = payload.use_case,
                                                !.created_at = hours]]
                /\ job' = [job EXCEPT ![uuid4] =
                             [NoTask EXCEPT !.pc = "queued",
                                            !.use_case = payload.use_case]]
                /\ Respond("created", uuid4)
        /\ UNCHANGED <<hours, limiter_vars, aux_vars, channel_vars>>

create_project(payload) ==
    LET api_base_url == BaseUrl(payload.url)
        found == IF payload.force_refresh THEN {} ELSE CacheLookup(api_base_url)
    IN  /\ IF found # {}
           THEN \E cached \in found :
                  /\ projects' = [projects EXCEPT ![cached].name = payload.name,
                                                  ![cached].use_case = payload.use_case]
                  /\ Respond("cached", cached)
                  /\ UNCHANGED job
           ELSE /\ NewIds # {}
                /\ projects' = [projects EXCEPT ![uuid4] =
                                  [NoRow EXCEPT !.status = "PENDING",
                                                !.name = payload.name,
                                                !.base_url = api_base_url,
                                                !.use_case = payload.use_case,
                                                !.created_at = hours]]
                /\ job' = [job EXCEPT ![uuid4] =
                             [NoTask EXCEPT !.pc = "queued",
                                            !.use_case = payload.use_case]]
                /\ Respond("created", uuid4)
        /\ UNCHANGED <<hours, limiter_vars, aux_vars, channel_vars>>

\* The project row and its endpoint rows are deleted.
delete_project(project_id) ==
    /\ Exists(project_id)
    /\ projects' = [projects EXCEPT ![project_id] = NoRow]
    /\ UNCHANGED <<job, hours, cp_last, limiter_vars, aux_vars, channel_vars>>

\* An hour passes.
TickHour ==
    /\ hours < MaxHours
    /\ hours' = hours + 1
    /\ UNCHANGED <<projects, job, cp_last, limiter_vars, aux_vars, channel_vars>>


JobsUnused ==
    /\ projects = [p \in ProjectIds |-> NoRow]
    /\ job = [p \in ProjectIds |-> NoTask]
    /\ hours = 0
    /\ cp_last = NoResponse

-----------------------------------------------------------------------------
(* services/scraper.py: scrape_page, scrape_docs                           *)

\* batch = queue[:3]
BatchSize == 3
\* The largest max_pages a crawl is started with.
MaxBudget == 4

\* An absolute URL, as urlparse splits it.
Href(scheme, netloc, path, query, fragment) ==
    [scheme |-> scheme, netloc |-> netloc, path |-> path, query |-> query,
     fragment |-> fragment]

Page(path) == Href("https", "h", path, "", "")

\* base_url: a plain URL and one with a query string.
Seeds == {Page("/"), Href("https", "h", "/a", "x=1", "")}

\* The anchors of a fetched page, after urljoin, in document order.
LinkLists ==
    { <<>>,
      <<Page("/a"), Href("https", "h", "/a", "x=2", ""),
        Href("https", "h", "/b", "", "f")>>,
      <<Page("/a"), Page("/b"), Href("http", "h", "/c", "", "")>>,
      <<Href("https", "o", "/a", "", ""), Href("https", "h", "/", "v=2", ""),
        Page("/d")>> }

\* href.split("?")[0]
StripQuery(href) == [href EXCEPT !.query = "", !.fragment = ""]

\* The loop over soup.find_all("a", href=True), from the anchors left.
RECURSIVE ChildUrlsFrom(_, _, _)
ChildUrlsFrom(url, hrefs, child_urls) ==
    IF hrefs = <<>>
    THEN child_urls
    ELSE LET href == Head(hrefs)
             clean == StripQuery(href)
             follow == /\ href.netloc = url.netloc
                       /\ href.fragment = ""
                       /\ clean # url
                       /\ ~InSeq(clean, child_urls)
         IN  ChildUrlsFrom(url, Tail(hrefs),
                           IF follow THEN Append(child_urls, clean) ELSE child_urls)

\* scrape_page returns the page, or the error of a failed fetch.
ScrapeOk(url, hrefs) ==
    [url |-> url, error |-> FALSE, child_urls |-> ChildUrlsFrom(url, hrefs, <<>>)]

ScrapeFailed(url) == [url |-> url, error |-> TRUE, child_urls |-> <<>>]

\* if not result.error
Keeps_All(result) == TRUE

Keeps(result) == ~result.error

\* for child in result.child_urls: append the ones neither visited nor queued.
RECURSIVE Enqueue(_, _, _)
Enqueue(children, visited, queue) ==
    IF children = <<>>
    THEN queue
    ELSE Enqueue(Tail(children), visited,
                 IF Head(children) \notin visited /\ ~InSeq(Head(children), queue)
                 THEN Append(queue, Head(children))
                 ELSE queue)

\* for result in batch_results, on the locals c of scrape_docs.
RECURSIVE Collect(_, _)
Collect(batch_results, c) ==
    IF batch_results = <<>>
    THEN c
    ELSE LET result == Head(batch_results)
             seen == c.visited \cup {result.url}
         IN  Collect(Tail(batch_results),
                     IF Keeps(result)
                     THEN [c EXCEPT !.visited = seen,
                                    !.results = Append(@, result),
                                    !.queue = Enqueue(result.child_urls, seen, @)]
                     ELSE [c EXCEPT !.visited = seen])

Take(seq, n) == SubSeq(seq, 1, IF Len(seq) < n THEN Len(seq) ELSE n)
Drop(seq, n) == SubSeq(seq, (IF Len(seq) < n THEN Len(seq) ELSE n) + 1, Len(seq))

\* The locals of scrape_docs at its first test of the loop condition;
\* fetched lists the URLs handed to scrape_page, failed those whose fetch
\* failed.
CrawlStart(base_url, max_pages) ==
    [pc |-> "loop", base_url |-> base_url, max_pages |-> max_pages,
     visited |-> {}, queue |-> <<base_url>>, results |-> <<>>,
     tasks |-> <<>>, pending |-> {}, batch_results |-> <<>>,
     fetched |-> <<>>, failed |-> {}]

CrawlUnused == CrawlStart(Page("/"), 1)

AuxFrame == UNCHANGED <<limiter_vars, channel_vars, job_vars, call>>

\* The loop condition holds: a batch is cut from the queue and one
\* scrape_page task is made for each of its URLs not yet visited.
scrape_docs_batch_Unfiltered ==
    /\ crawl.pc = "loop"
    /\ crawl.queue # <<>>
    /\ Cardinality(crawl.visited) < crawl.max_pages
    /\ LET tasks == Take(crawl.queue, BatchSize)
       IN  crawl' = [crawl EXCEPT !.pc = "gather",
                                  !.queue = Drop(crawl.queue, BatchSize),
                                  !.tasks = tasks,
                                  !.pending = 1..Len(tasks),
                                  !.batch_results = [i \in 1..Len(tasks) |->
                                                       ScrapeFailed(tasks[i])],
                                  !.fetched = @ \o tasks]
    /\ AuxFrame

scrape_docs_batch ==
    /\ crawl.pc = "loop"
    /\ crawl.queue # <<>>
    /\ Cardinality(crawl.visited) < crawl.max_pages
    /\ LET batch == Take(crawl.queue, BatchSize)
           tasks == SelectSeq(batch, LAMBDA url : url \notin crawl.visited)
       IN  crawl' = [crawl EXCEPT !.pc = "gather",
                                  !.queue = Drop(crawl.queue, BatchSize),
                                  !.tasks = tasks,
                                  !.pending = 1..Len(tasks),
                                  !.batch_results = [i \in 1..Len(tasks) |->
                                                       ScrapeFailed(tasks[i])],
                                  !.fetched = @ \o tasks]
    /\ AuxFrame

\* Task i of the batch fetches its page and returns its links.
scrape_page(i, hrefs) ==
    /\ crawl.pc = "gather"
    /\ i \in crawl.pending
    /\ crawl' = [crawl EXCEPT !.pending = @ \ {i},
                              !.batch_results[i] = ScrapeOk(crawl.tasks[i], hrefs)]
    /\ AuxFrame

\* Task i of the batch fails: the exception is caught and returned.
scrape_page_error(i) ==
    /\ crawl.pc = "gather"
    /\ i \in crawl.pending
    /\ crawl' = [crawl EXCEPT !.pending = @ \ {i},
                              !.batch_results[i] = ScrapeFailed(crawl.tasks[i]),
                              !.failed = @ \cup {crawl.tasks[i]}]
    /\ AuxFrame

\* asyncio.gather returns: the results are taken in batch order.
scrape_docs_collect ==
    /\ crawl.pc = "gather"
    /\ crawl.pending = {}
    /\ crawl' = [Collect(crawl.batch_results, crawl) EXCEPT
                    !.pc = "loop", !.tasks = <<>>, !.batch_results = <<>>]
    /\ AuxFrame

\* The loop condition fails: return results.
scrape_docs_return ==
    /\ crawl.pc = "loop"
    /\ ~(crawl.queue # <<>> /\ Cardinality(crawl.visited) < crawl.max_pages)
    /\ crawl' = [crawl EXCEPT !.pc = "returned"]
    /\ AuxFrame

NoCall == [pc |-> "none"]

AuxUnused ==
    /\ crawl = CrawlUnused
    /\ call = NoCall

InitCrawl ==
    /\ clock = 0
    /\ redis = [ip \in Ips |-> {}]
    /\ redis_ttl = [ip \in Ips |-> -1]
    /\ rl = [c \in Calls |-> RlIdle]
    /\ rl_last = NoneReturned
    /\ ChannelUnused
    /\ JobsUnused
    /\ call = NoCall
    /\ crawl \in {CrawlStart(base_url, max_pages) :
                    base_url \in Seeds, max_pages \in 1..MaxBudget}

NextCrawl ==
    \/ scrape_docs_batch
    \/ \E i \in 1..BatchSize, hrefs \in LinkLists : scrape_page(i, hrefs)
    \/ \E i \in 1..BatchSize : scrape_page_error(i)
    \/ scrape_docs_collect
    \/ scrape_docs_return

SpecCrawl == InitCrawl /\ [][NextCrawl]_vars

Range(seq) == {seq[i] : i \in 1..Len(seq)}

\* C11: at every point of scrape_docs, and at its return, the number of
\* distinct URLs visited is at most max_pages.
C11_PageBudget == Cardinality(crawl.visited) <= crawl.max_pages

SameAuthority(u, v) == u.scheme = v.scheme /\ u.netloc = v.netloc

\* C12: every URL scrape_docs queues, fetches or visits has the scheme and
\* the host of the seed URL.
C12_SeedAuthority ==
    \A u \in crawl.visited \cup Range(crawl.queue) \cup Range(crawl.fetched) :
        SameAuthority(u, crawl.base_url)

\* C13: of the URLs that differ only in their query string, the seed
\* included, at most one is fetched and at most one is in the results.
C13_QueryDedup ==
    /\ \A i, k \in 1..Len(crawl.fetched) :
         StripQuery(crawl.fetched[i]) = StripQuery(crawl.fetched[k]) => i = k
    /\ \A i, k \in 1..Len(crawl.results) :
         StripQuery(crawl.results[i].url) = StripQuery(crawl.results[k].url) => i = k

C30_NoPageTwice ==
    /\ \A i, k \in 1..Len(crawl.fetched) :
         crawl.fetched[i] = crawl.fetched[k] => i = k
    /\ \A i, k \in 1..Len(crawl.results) :
         crawl.results[i].url = crawl.results[k].url => i = k
    /\ \A i, k \in 1..Len(crawl.tasks) :
         crawl.tasks[i] = crawl.tasks[k] => i = k
    /\ \A i, k \in 1..Len(crawl.queue) :
         crawl.queue[i] = crawl.queue[k] => i = k

\* A page of a batch linked to another page of the same batch, which was
\* queued again, and the batch cut next held visited pages only: nothing
\* was fetched for it. A result links back to the page that led to it.
C30_Witness ==
    /\ crawl.pc = "gather"
    /\ crawl.tasks = <<>>
    /\ Len(crawl.fetched) >= 3
    /\ \E n, k \in 1..Len(crawl.results) :
          /\ k < n
          /\ InSeq(crawl.results[k].url, crawl.results[n].child_urls)
          /\ InSeq(crawl.results[n].url, crawl.results[k].child_urls)

-----------------------------------------------------------------------------
(* services/llm_parser.py: _merge_schemas                                  *)

\* The most chunks a documentation text is split into.
MaxChunks == 2

SeqsUpTo(S, n) == UNION {[1..k -> S] : k \in 0..n}

Endpoint(path, method, summary) ==
    [path |-> path, method |-> method, summary |-> summary]

\* The endpoints a chunk may yield: two of them share (path, method).
Endpoints ==
    {Endpoint("/x", "GET", "a"), Endpoint("/x", "GET", "b"),
     Endpoint("/x", "POST", "a")}

\* The top-level metadata of a schema: api_name (with version and
\* description) and auth.type.
Metadata == {[api_name |-> "A", auth |-> "none"], [api_name |-> "B", auth |-> "bearer"]}

\* APISchema: as the model returned it for one chunk.
Schemas ==
    {[api_name |-> d.api_name, auth |-> d.auth, base_url |-> b, endpoints |-> e] :
        d \in Metadata, b \in {"", "b"}, e \in SeqsUpTo(Endpoints, 2)}

\* APISchema()
EmptySchema == [api_name |-> "", auth |-> "none", base_url |-> "", endpoints |-> <<>>]

Key(endpoint) == <<endpoint.path, endpoint.method>>

Keys(endpoints) == {Key(endpoints[i]) : i \in 1..Len(endpoints)}

\* for endpoint in schema.endpoints: append when its key is not existing.
RECURSIVE MergeEndpoints(_, _)
MergeEndpoints(merged, endpoints) ==
    IF endpoints = <<>>
    THEN merged
    ELSE MergeEndpoints(IF Key(Head(endpoints)) \notin Keys(merged)
                        THEN Append(merged, Head(endpoints))
                        ELSE merged,
                        Tail(endpoints))

\* for schema in schemas[1:], on merged = schemas[0].
RECURSIVE MergeInto(_, _)
MergeInto(merged, schemas) ==
    IF schemas = <<>>
    THEN merged
    ELSE MergeInto([merged EXCEPT
                      !.endpoints = MergeEndpoints(@, Head(schemas).endpoints)],
                   Tail(schemas))

MergeSchemas(schemas) ==
    IF schemas = <<>> THEN EmptySchema ELSE MergeInto(Head(schemas), Tail(schemas))

CallFrame == UNCHANGED <<limiter_vars, channel_vars, job_vars, crawl>>

\* _merge_schemas is called and returns.
merge_schemas ==
    /\ call.pc = "called"
    /\ call.fn = "_merge_schemas"
    /\ call' = [call EXCEPT !.pc = "returned", !.output = MergeSchemas(call.input)]
    /\ CallFrame

OthersUnused ==
    /\ clock = 0
    /\ redis = [ip \in Ips |-> {}]
    /\ redis_ttl = [ip \in Ips |-> -1]
    /\ rl = [c \in Calls |-> RlIdle]
    /\ rl_last = NoneReturned
    /\ ChannelUnused
    /\ JobsUnused
    /\ crawl = CrawlUnused

InitMerge ==
    /\ OthersUnused
    /\ call \in {[fn |-> "_merge_schemas", pc |-> "called", input |-> schemas,
                  output |-> EmptySchema] :
                    schemas \in SeqsUpTo(Schemas, MaxChunks)}

NextMerge == merge_schemas

SpecMerge == InitMerge /\ [][NextMerge]_vars

\* C15: whatever the per-chunk schemas, chunks that repeat a (path, method)
\* pair in their own list included, the endpoint list _merge_schemas returns
\* has no two entries with the same (path, method).
C15_MergedUnique ==
    call.pc = "returned" =>
        \A i, k \in 1..Len(call.output.endpoints) :
            Key(call.output.endpoints[i]) = Key(call.output.endpoints[k]) => i = k

-----------------------------------------------------------------------------
(* services/llm_parser.py: _chunk_text                                     *)

\* The largest max_chars (12000 by default) and the longest text.
MaxChars == 11
MaxText == 12

\* text: strings of letters and newlines, as sequences of characters.
Texts == SeqsUpTo({"a", "\n"}, MaxText)

\* chunk.rfind("\n"): the index, from 0, of the last newline; -1 without.
RFind(chunk) ==
    LET at == {p \in 1..Len(chunk) : chunk[p] = "\n"}
    IN  IF at = {} THEN -1
        ELSE (CHOOSE p \in at : \A q \in at : q <= p) - 1

\* last_newline > max_chars * 0.8
CutsAtNewline_Any(last_newline, max_chars) == last_newline >= 0

CutsAtNewline(last_newline, max_chars) == 10 * last_newline > 8 * max_chars

\* One pass of the loop body: the chunk cut from the head of text.
NextChunk(text, max_chars) ==
    LET chunk == Take(text, max_chars)
        last_newline == RFind(chunk)
    IN  IF CutsAtNewline(last_newline, max_chars)
        THEN Take(chunk, last_newline)
        ELSE chunk

\* _chunk_text is called: text is what the loop has left, chunks what it cut.
ChunkStart(text, max_chars) ==
    [fn |-> "_chunk_text", pc |-> "called",
     input |-> [text |-> text, max_chars |-> max_chars],
     text |-> text, chunks |-> <<>>, output |-> <<>>]

\* if len(text) <= max_chars: return [text]
chunk_text_whole ==
    /\ call.pc = "called"
    /\ Len(call.input.text) <= call.input.max_chars
    /\ call' = [call EXCEPT !.pc = "returned", !.output = <<call.input.text>>]
    /\ CallFrame

\* while text: one chunk is cut and appended.
chunk_text_step ==
    /\ \/ call.pc = "called" /\ Len(call.input.text) > call.input.max_chars
       \/ call.pc = "loop"
    /\ call.text # <<>>
    /\ LET chunk == NextChunk(call.text, call.input.max_chars)
       IN  call' = [call EXCEPT !.pc = "loop",
                                !.chunks = Append(@, chunk),
                                !.text = Drop(@, Len(chunk))]
    /\ CallFrame

\* The text is used up: return chunks.
chunk_text_return ==
    /\ call.pc = "loop"
    /\ call.text = <<>>
    /\ call' = [call EXCEPT !.pc = "returned", !.output = call.chunks]
    /\ CallFrame

InitChunk ==
    /\ OthersUnused
    /\ call \in {ChunkStart(text, max_chars) :
                    text \in Texts, max_chars \in 1..MaxChars}

NextChunkText ==
    \/ chunk_text_whole
    \/ chunk_text_step
    \/ chunk_text_return

SpecChunk == InitChunk /\ [][NextChunkText]_vars

RECURSIVE Concat(_)
Concat(chunks) ==
    IF chunks = <<>> THEN <<>> ELSE Head(chunks) \o Concat(Tail(chunks))

\* What was left of the text when chunk k was cut, up to max_chars of it.
Window(chunks, k, text, max_chars) ==
    Take(Drop(text, Len(Concat(SubSeq(chunks, 1, k - 1)))), max_chars)

\* Chunk k is its window, or its window up to the last newline of the
\* window, that newline lying beyond 80% of max_chars.
CutAsStated(chunks, k, text, max_chars) ==
    LET window == Window(chunks, k, text, max_chars)
        last_newline == RFind(window)
    IN  IF last_newline >= 0 /\ 10 * last_newline > 8 * max_chars
        THEN /\ chunks[k] = SubSeq(window, 1, last_newline)
             /\ window[last_newline + 1] = "\n"
             /\ \A p \in (last_newline + 2)..Len(window) : window[p] # "\n"
        ELSE chunks[k] = window

\* C27: _chunk_text terminates (every pass of its loop cuts a chunk that is
\* not empty from what is left) and returns chunks whose concatenation is
\* the text, each of max_chars characters at most and, for a text that is
\* not empty, of one at least; a chunk ends at the last newline of its
\* window only when that newline lies beyond 80% of max_chars, and at
\* max_chars (or the end of the text) otherwise.
C27_LosslessPartition ==
    call.pc \in {"loop", "returned"} =>
        LET text == call.input.text
            max_chars == call.input.max_chars
            chunks == IF call.pc = "loop" THEN call.chunks ELSE call.output
            rest == IF call.pc = "loop" THEN call.text ELSE <<>>
        IN  /\ Concat(chunks) \o rest = text
            /\ \A k \in 1..Len(chunks) :
                 /\ Len(chunks[k]) <= max_chars
                 /\ text # <<>> => Len(chunks[k]) >= 1
                 /\ Len(text) > max_chars => CutAsStated(chunks, k, text, max_chars)
            /\ Len(text) <= max_chars => chunks = <<text>>
            /\ call.pc = "returned" => Len(chunks) >= 1

\* A text was cut at a newline that is not the last character of the
\* window, an earlier newline of the chunk being passed over.
C27_Witness ==
    /\ call.pc = "returned"
    /\ Len(call.output) > 1
    /\ Len(call.output[1]) < call.input.max_chars - 1
    /\ RFind(call.output[1]) >= 0

-----------------------------------------------------------------------------
(* services/llm_parser.py: parse_documentation, _parse_openapi_spec        *)

\* Sequences without repetition, of length 2 at most.
DistinctSeqs(S) ==
    {q \in SeqsUpTo(S, 2) : \A i, k \in 1..Len(q) : q[i] = q[k] => i = k}

\* The keys of a path item: two operations and one key that is none.
OperationKeys == {"get", "Post", "parameters"}

\* spec["paths"]: the path items in the order of the text, each with the
\* keys of its members.
PathMaps ==
    {<<>>} \cup {<<[path |-> "/x", keys |-> k]>> : k \in DistinctSeqs(OperationKeys)}
           \cup {<<[path |-> "/x", keys |-> k1], [path |-> "/y", keys |-> k2]>> :
                   k1 \in DistinctSeqs(OperationKeys),
                   k2 \in DistinctSeqs(OperationKeys)}

\* spec["components"]["securitySchemes"], in the order of the text.
SecuritySchemes ==
    SeqsUpTo({[type |-> "http", scheme |-> "bearer"],
              [type |-> "http", scheme |-> "basic"],
              [type |-> "apiKey", scheme |-> ""]}, 2)

\* The top-level members of the object, in the order of the text.
MemberOrders ==
    {q \in [1..2 -> {"openapi", "paths"}] \cup
           [1..3 -> {"openapi", "paths", "components"}] :
        \A i, k \in 1..Len(q) : q[i] = q[k] => i = k}

\* markdown_content: a JSON object with an "openapi" member and a "paths"
\* member.
SpecTexts ==
    {[members |-> o, paths |-> pm, schemes |-> ss] :
        o \in MemberOrders, pm \in PathMaps, ss \in SecuritySchemes}

\* re.search(r'\{[\s\S]*"openapi"[\s\S]*"paths"[\s\S]*\}', markdown_content)
JsonMatch(text) ==
    \E i, k \in 1..Len(text.members) :
        i < k /\ text.members[i] = "openapi" /\ text.members[k] = "paths"

\* str.upper() on the keys of a path item.
Upper(key) ==
    CASE key = "get" -> "GET"
      [] key = "Post" -> "POST"
      [] key = "parameters" -> "PARAMETERS"

HttpMethods == {"GET", "POST", "PUT", "DELETE", "PATCH", "HEAD", "OPTIONS"}

\* for method, operation in path_item.items()
RECURSIVE Operations(_, _)
Operations(path, keys) ==
    IF keys = <<>>
    THEN <<>>
    ELSE (IF Upper(Head(keys)) \notin HttpMethods
          THEN <<>>
          ELSE <<[path |-> path, method |-> Upper(Head(keys))]>>)
         \o Operations(path, Tail(keys))

\* for path, path_item in spec.get("paths", {}).items()
RECURSIVE OpenApiEndpoints(_)
OpenApiEndpoints(paths) ==
    IF paths = <<>>
    THEN <<>>
    ELSE Operations(Head(paths).path, Head(paths).keys) \o OpenApiEndpoints(Tail(paths))

\* for scheme_name, scheme in security_schemes.items(), from auth.
RECURSIVE DetectAuth(_, _)
DetectAuth(auth, schemes) ==
    IF schemes = <<>>
    THEN auth
    ELSE DetectAuth(IF Head(schemes).type = "http" /\ Head(schemes).scheme = "bearer"
                    THEN "bearer"
                    ELSE IF Head(schemes).type = "apiKey" THEN "api_key" ELSE auth,
                    Tail(schemes))

\* json.loads of the text, then _parse_openapi_spec.
ParseOpenApiSpec(text) ==
    [via |-> "direct",
     auth |-> DetectAuth("none", IF InSeq("components", text.members)
                                 THEN text.schemes ELSE <<>>),
     endpoints |-> OpenApiEndpoints(text.paths)]

\* What the chunked path may return for such a text.
LlmResults ==
    {[via |-> "llm", auth |-> "none", endpoints |-> e] :
        e \in {<<>>, <<[path |-> "/x", method |-> "GET"]>>}}

NoResult == [via |-> "", auth |-> "", endpoints |-> <<>>]

\* The text matches and parses: the schema of _parse_openapi_spec is returned.
parse_documentation_direct ==
    /\ call.pc = "called"
    /\ call.fn = "parse_documentation"
    /\ JsonMatch(call.input)
    /\ call' = [call EXCEPT !.pc = "returned", !.output = ParseOpenApiSpec(call.input)]
    /\ CallFrame

\* No match: the text is chunked and sent to the model, the schemas merged.
parse_documentation_llm(result) ==
    /\ call.pc = "called"
    /\ call.fn = "parse_documentation"
    /\ ~JsonMatch(call.input)
    /\ call' = [call EXCEPT !.pc = "returned", !.output = result]
    /\ CallFrame

InitOpenApi ==
    /\ OthersUnused
    /\ call \in {[fn |-> "parse_documentation", pc |-> "called", input |-> text,
                  output |-> NoResult] : text \in SpecTexts}

NextOpenApi ==
    \/ parse_documentation_direct
    \/ \E result \in LlmResults : parse_documentation_llm(result)

SpecOpenApi == InitOpenApi /\ [][NextOpenApi]_vars

\* The (path, key) pairs of the text whose key is an HTTP method.
OperationPairs(text) ==
    {<<i, k>> \in (1..Len(text.paths)) \X (1..2) :
        /\ k <= Len(text.paths[i].keys)
        /\ text.paths[i].keys[k] \in {"get", "Post"}}

DeclaresAuth(text) ==
    /\ InSeq("components", text.members)
    /\ \E i \in 1..Len(text.schemes) :
         \/ text.schemes[i].type = "apiKey"
         \/ text.schemes[i].type = "http" /\ text.schemes[i].scheme = "bearer"

\* C16: for a text that is an object with an "openapi" marker and a "paths"
\* map, parse_documentation takes the direct path and returns exactly one
\* endpoint for every (path, key) whose key is an HTTP method, the method in
\* upper case, nothing for the other keys, and auth none when neither a
\* bearer nor an API-key scheme is declared.
C16_DirectSpecResult ==
    call.pc = "returned" =>
        LET text == call.input
            out == call.output
        IN  /\ out.via = "direct"
            /\ Len(out.endpoints) = Cardinality(OperationPairs(text))
            /\ \A pr \in OperationPairs(text) :
                 Cardinality({n \in 1..Len(out.endpoints) :
                    /\ out.endpoints[n].path = text.paths[pr[1]].path
                    /\ out.endpoints[n].method
                         = (IF text.paths[pr[1]].keys[pr[2]] = "get"
                            THEN "GET" ELSE "POST")}) = 1
            /\ ~DeclaresAuth(text) => out.auth = "none"

-----------------------------------------------------------------------------
(* services/llm_parser.py: parse_documentation, its two paths              *)

\* markdown_content, by what parse_documentation does with it: no embedded
\* spec matched; a match that json.loads or _parse_openapi_spec rejects; a
\* match that parses. chunks is len(_chunk_text(markdown_content)).
Documents ==
    [detected : {"none", "malformed", "spec"}, chunks : 1..MaxChunks,
     base_url : {"", "u"}]

\* What _parse_openapi_spec returns for the embedded spec.
DirectSchema(base_url) ==
    [api_name |-> "S", auth |-> "none", base_url |-> base_url,
     endpoints |-> <<Endpoint("/y", "GET", "")>>]

\* APISchema(**data) of the replies that parse.
ChunkSchemas ==
    { [api_name |-> "A", auth |-> "none", base_url |-> "",
       endpoints |-> <<Endpoint("/x", "GET", "a"), Endpoint("/x", "GET", "b")>>],
      [api_name |-> "B", auth |-> "bearer", base_url |-> "b",
       endpoints |-> <<Endpoint("/x", "GET", "b"), Endpoint("/x", "POST", "a")>>],
      [api_name |-> "A", auth |-> "none", base_url |-> "", endpoints |-> <<>>] }

\* response.content: text that parses to a schema, or that json.loads or
\* APISchema(**data) rejects.
Replies ==
    {[ok |-> TRUE, schema |-> sc] : sc \in ChunkSchemas}
        \cup {[ok |-> FALSE, schema |-> EmptySchema]}

NoOutput == [via |-> "", schema |-> EmptySchema]

\* parse_documentation is called. events lists the sleeps, the requests to
\* the model and what came of each; outstanding counts the requests not
\* yet answered.
ExtractStart(doc) ==
    [fn |-> "parse_documentation", pc |-> "detect", input |-> doc, i |-> 0,
     schemas |-> <<>>, events |-> <<>>, outstanding |-> 0, output |-> NoOutput]

Event(kind, chunk) == [kind |-> kind, chunk |-> chunk]

\* re.search, json.loads and _parse_openapi_spec: the parsed spec is
\* returned; without a match, or when the parse raises, the model path.
parse_documentation_detect_Both ==
    /\ call.pc = "detect"
    /\ call' = IF call.input.detected = "spec"
               THEN [call EXCEPT !.pc = "client",
                                 !.output = [via |-> "direct",
                                             schema |-> DirectSchema(call.input.base_url)]]
               ELSE [call EXCEPT !.pc = "client"]
    /\ CallFrame

parse_documentation_detect ==
    /\ call.pc = "detect"
    /\ call' = IF call.input.detected = "spec"
               THEN [call EXCEPT !.pc = "returned",
                                 !.output = [via |-> "direct",
                                             schema |-> DirectSchema(call.input.base_url)]]
               ELSE [call EXCEPT !.pc = "client"]
    /\ CallFrame

\* ChatGoogleGenerativeAI(...) and _chunk_text return.
parse_documentation_client ==
    /\ call.pc = "client"
    /\ call' = [call EXCEPT !.pc = "loop"]
    /\ CallFrame

\* ChatGoogleGenerativeAI(...) raises, outside every try.
parse_documentation_client_error ==
    /\ call.pc = "client"
    /\ call' = [call EXCEPT !.pc = "raised"]
    /\ CallFrame

\* await llm.ainvoke(messages) for chunk i is started.
Invoke(c) ==
    [c EXCEPT !.pc = "invoke", !.outstanding = @ + 1,
              !.events = Append(@, Event("request", c.i))]

\* The next chunk of the loop: asyncio.sleep(5) is awaited first when it is
\* not the first chunk.
parse_documentation_next_chunk ==
    /\ call.pc = "loop"
    /\ call.i < call.input.chunks
    /\ call' = IF call.i > 0
               THEN [call EXCEPT !.pc = "sleep",
                                 !.events = Append(@, Event("sleep", call.i))]
               ELSE Invoke(call)
    /\ CallFrame

\* The sleep returns and the request is made.
parse_documentation_wake ==
    /\ call.pc = "sleep"
    /\ call' = Invoke(call)
    /\ CallFrame

\* ainvoke returns: a reply that parses is appended to schemas, one that
\* does not is logged.
parse_documentation_response(reply) ==
    /\ call.pc = "invoke"
    /\ call' = [call EXCEPT
                  !.pc = "loop", !.i = @ + 1, !.outstanding = @ - 1,
                  !.schemas = IF reply.ok THEN Append(@, reply.schema) ELSE @,
                  !.events = Append(@, Event(IF reply.ok THEN "parsed" ELSE "dropped",
                                             call.i))]
    /\ CallFrame

\* ainvoke raises: except Exception logs it.
parse_documentation_chunk_error_Fatal ==
    /\ call.pc = "invoke"
    /\ call' = [call EXCEPT !.pc = "raised", !.outstanding = @ - 1,
                            !.events = Append(@, Event("error", call.i))]
    /\ CallFrame

parse_documentation_chunk_error ==
    /\ call.pc = "invoke"
    /\ call' = [call EXCEPT !.pc = "loop", !.i = @ + 1, !.outstanding = @ - 1,
                            !.events = Append(@, Event("error", call.i))]
    /\ CallFrame

\* if base_url and not merged.base_url: merged.base_url = base_url
WithBaseUrl(merged, base_url) ==
    IF base_url # "" /\ merged.base_url = ""
    THEN [merged EXCEPT !.base_url = base_url]
    ELSE merged

\* The loop is over: the schemas are merged and returned.
parse_documentation_merge ==
    /\ call.pc = "loop"
    /\ call.i = call.input.chunks
    /\ call' = [call EXCEPT
                  !.pc = "returned",
                  !.output = [via |-> "llm",
                              schema |-> WithBaseUrl(MergeSchemas(call.schemas),
                                                     call.input.base_url)]]
    /\ CallFrame

InitExtract ==
    /\ OthersUnused
    /\ call \in {ExtractStart(doc) : doc \in Documents}

NextExtract ==
    \/ parse_documentation_detect
    \/ parse_documentation_client
    \/ parse_documentation_client_error
    \/ parse_documentation_next_chunk
    \/ parse_documentation_wake
    \/ \E reply \in Replies : parse_documentation_response(reply)
    \/ parse_documentation_chunk_error
    \/ parse_documentation_merge

SpecExtract == InitExtract /\ [][NextExtract]_vars

\* The endpoints of all the schemas, in chunk order.
RECURSIVE AllEndpoints(_)
AllEndpoints(schemas) ==
    IF schemas = <<>> THEN <<>>
    ELSE Head(schemas).endpoints \o AllEndpoints(Tail(schemas))

\* Of a list of endpoints, those whose (path, method) no earlier one has.
FirstOccurrences(endpoints) ==
    LET first == SelectSeq([i \in 1..Len(endpoints) |-> i],
                           LAMBDA i : \A k \in 1..(i - 1) :
                                         Key(endpoints[k]) # Key(endpoints[i]))
    IN  [n \in 1..Len(first) |-> endpoints[first[n]]]

\* C26: the schema returned for the parsed chunk schemas has the name and
\* the auth of the first of them; its endpoints are, for every (path,
\* method) of any chunk, the endpoint of the first occurrence, in the order
\* of the first occurrences; its base URL is that of the first schema, or
\* the caller's when that one is empty.
C26_FirstOccurrenceUnion ==
    (call.pc = "returned" /\ call.output.via = "llm" /\ call.schemas # <<>>) =>
        LET out == call.output.schema
            first == call.schemas[1]
        IN  /\ out.api_name = first.api_name
            /\ out.auth = first.auth
            /\ out.endpoints = FirstOccurrences(AllEndpoints(call.schemas))
            /\ out.base_url = IF first.base_url = ""
                              THEN call.input.base_url ELSE first.base_url

\* The positions of the requests in the events.
Requests == {p \in 1..Len(call.events) : call.events[p].kind = "request"}

Answers == {"parsed", "dropped", "error"}

\* C28: on the model path one request is made per chunk, in chunk order,
\* never two outstanding, after a sleep for every chunk but the first (the
\* sleep starting when the chunk before was answered); a chunk whose request
\* fails or whose reply does not parse is dropped and the loop goes on; and
\* when no chunk parses the function returns the empty schema, no error.
C28_SequentialChunks ==
    /\ call.outstanding \in {0, 1}
    /\ \A p \in Requests :
         /\ call.events[p].chunk = Cardinality({q \in Requests : q < p})
         /\ IF call.events[p].chunk = 0
            THEN p = 1
            ELSE /\ p > 2
                 /\ call.events[p - 1] = Event("sleep", call.events[p].chunk)
                 /\ call.events[p - 2].kind \in Answers
                 /\ call.events[p - 2].chunk = call.events[p].chunk - 1
    /\ Requests # {} => call.pc # "raised"
    /\ Len(call.schemas)
          = Cardinality({p \in 1..Len(call.events) : call.events[p].kind = "parsed"})
    /\ (call.pc = "returned" /\ call.output.via = "llm") =>
          /\ Cardinality(Requests) = call.input.chunks
          /\ call.schemas = <<>> =>
                /\ call.output.schema.endpoints = <<>>
                /\ call.output.schema.auth = "none"
                /\ call.output.schema.api_name = ""

\* The request of the first chunk failed, the reply to the last parsed, and
\* the schema of that reply was returned.
C28_Witness ==
    /\ call.pc = "returned"
    /\ call.output.via = "llm"
    /\ call.input.chunks > 1
    /\ call.events[2].kind \in {"dropped", "error"}
    /\ call.events[Len(call.events)].kind = "parsed"
    /\ call.output.schema.endpoints # <<>>

\* C29: a result of the direct parse comes with no request made; requests
\* are made only when no spec was matched or its parse failed, and then the
\* result is the merge of the chunk schemas and nothing else.
C29_PathsExclusive ==
    /\ call.output.via = "direct" =>
          /\ call.events = <<>>
          /\ call.input.detected = "spec"
          /\ call.pc = "returned"
    /\ call.events # <<>> => call.input.detected \in {"none", "malformed"}
    /\ call.pc = "returned" =>
          IF call.input.detected = "spec"
          THEN call.output = [via |-> "direct",
                              schema |-> DirectSchema(call.input.base_url)]
          ELSE /\ call.output.via = "llm"
               /\ call.output.schema
                    = WithBaseUrl(MergeSchemas(call.schemas), call.input.base_url)

\* The direct parse of a matched spec failed and the result came from the
\* chunks.
C29_Witness ==
    /\ call.pc = "returned"
    /\ call.input.detected = "malformed"
    /\ call.output.via = "llm"
    /\ Len(call.schemas) > 1

-----------------------------------------------------------------------------
(* services/llm_parser.py: suggest_integration_paths                       *)

\* use_case: texts, as sequences of characters.
UseCases ==
    {<<>>,
     <<"G", "o">>,
     <<"a", " ", "j", "a", "v", "a", " ", "a", "p", "p">>,
     <<"J", "a", "v", "a", " ", "S", "p", "r", "i", "n", "g">>,
     <<"p", "y", "t", "h", "o", "n">>,
     <<"d", "j", "a", "n", "g", "o">>,
     <<"j", "a", "v", "a", "s", "c", "r", "i", "p", "t">>,
     <<"t", "y", "p", "e", "s", "c", "r", "i", "p", "t">>,
     <<"c", "a", "r", "g", "o">>,
     <<"i", "n", " ", "r", "u", "s", "t">>,
     <<"b", "o", "t", "s">>}

\* str.lower(), character by character.
LowerChar(c) ==
    CASE c = "G" -> "g"
      [] c = "J" -> "j"
      [] c = "S" -> "s"
      [] OTHER -> c

Lower(text) == [i \in 1..Len(text) |-> LowerChar(text[i])]

\* word in text
Contains(text, word) ==
    \E i \in 1..Len(text) :
        /\ i + Len(word) - 1 <= Len(text)
        /\ SubSeq(text, i, i + Len(word) - 1) = word

PythonWords ==
    {<<"p", "y", "t", "h", "o", "n">>,
     <<"d", "j", "a", "n", "g", "o">>,
     <<"f", "l", "a", "s", "k">>,
     <<"f", "a", "s", "t", "a", "p", "i">>}
TypeScriptWords ==
    {<<"j", "a", "v", "a", "s", "c", "r", "i", "p", "t">>,
     <<"t", "y", "p", "e", "s", "c", "r", "i", "p", "t">>,
     <<"n", "o", "d", "e">>,
     <<"r", "e", "a", "c", "t">>,
     <<"n", "e", "x", "t">>,
     <<"j", "s">>,
     <<"t", "s">>}
GoWords ==
    {<<"g", "o">>,
     <<"g", "o", "l", "a", "n", "g">>}
JavaWords ==
    {<<"j", "a", "v", "a">>,
     <<"s", "p", "r", "i", "n", "g">>}

\* The if/elif chain over use_case.lower(); "" stands for None.
PreferredLanguage(use_case) ==
    LET use_case_lower == Lower(use_case)
        any(words) == \E word \in words : Contains(use_case_lower, word)
    IN  IF any(PythonWords) THEN "python"
        ELSE IF any(TypeScriptWords) THEN "typescript"
        ELSE IF any(GoWords) THEN "go"
        ELSE IF any(JavaWords) THEN "java"
        ELSE ""

\* str.title() of the two languages it is applied to.
Title(language) == IF language = "go" THEN "Go" ELSE "Java"

\* api_schema, as far as the advisor reads it: auth.type and endpoints[0].
AdvisedSchemas ==
    {[auth |-> a, has_endpoint |-> e] :
        a \in {"none", "bearer", "oauth2", "api_key"}, e \in BOOLEAN}

\* The Python suggestion is built when Python is detected, or nothing is.
WithPython_Always(preferred_language) == TRUE

WithPython(preferred_language) ==
    preferred_language = "python" \/ preferred_language = ""

WithTypeScript(preferred_language) ==
    preferred_language \in {"typescript", "javascript", ""}

\* The suggestions, each with its approach, language, libraries and mark
\* (the reasoning and code_snippet texts are left out).
SuggestIntegrationPaths(api_schema, use_case) ==
    LET preferred_language == PreferredLanguage(use_case)
        typed == Contains(Lower(use_case), <<"t", "y", "p", "e", "s", "c", "r", "i", "p", "t">>)
        python ==
            IF WithPython(preferred_language)
            THEN <<[approach |-> "Generated Python SDK", language |-> "Python",
                    recommended_libraries |->
                       <<"httpx", "requests">> \o
                       (IF api_schema.auth = "bearer" THEN <<"python-jose">>
                        ELSE IF api_schema.auth = "oauth2"
                             THEN <<"requests-oauthlib", "authlib">>
                             ELSE <<>>),
                    is_recommended |-> preferred_language \in {"python", ""}]>>
            ELSE <<>>
        typescript ==
            IF WithTypeScript(preferred_language)
            THEN <<[approach |-> IF typed THEN "Generated TypeScript SDK"
                                 ELSE "Generated JavaScript SDK",
                    language |-> IF typed THEN "TypeScript" ELSE "JavaScript",
                    recommended_libraries |-> <<"fetch API (built-in)", "axios">>,
                    is_recommended |->
                       preferred_language \in {"typescript", "javascript"}]>>
            ELSE <<>>
        rest ==
            <<[approach |-> "Direct REST calls", language |-> "Any",
               recommended_libraries |-> <<"curl", "httpx", "fetch">>,
               is_recommended |-> FALSE]>>
        other ==
            IF preferred_language \in {"go", "java"}
            THEN <<[approach |-> IF preferred_language = "go"
                                 THEN "Go Integration" ELSE "Java Integration",
                    language |-> Title(preferred_language),
                    recommended_libraries |->
                       IF preferred_language = "go"
                       THEN <<"go-resty", "net/http">>
                       ELSE <<"OkHttp", "Retrofit", "Spring WebClient">>,
                    is_recommended |-> TRUE]>>
            ELSE <<>>
    IN  other \o python \o typescript \o rest

\* suggest_integration_paths is called and returns.
suggest_integration_paths ==
    /\ call.pc = "called"
    /\ call.fn = "suggest_integration_paths"
    /\ call' = [call EXCEPT
                  !.pc = "returned",
                  !.output = SuggestIntegrationPaths(call.input.api_schema,
                                                     call.input.use_case)]
    /\ CallFrame

InitAdvisor ==
    /\ OthersUnused
    /\ call \in {[fn |-> "suggest_integration_paths", pc |-> "called",
                  input |-> [api_schema |-> a, use_case |-> u], output |-> <<>>] :
                    a \in AdvisedSchemas, u \in UseCases}

NextAdvisor == suggest_integration_paths

SpecAdvisor == InitAdvisor /\ [][NextAdvisor]_vars

\* C17: when Go or Java is detected in the use case, the list returned has
\* the suggestion of that language first, marked recommended, has a Python
\* suggestion and a TypeScript or JavaScript suggestion, neither marked, and
\* ends with the REST fallback, not marked.
C17_OtherLanguage ==
    (call.pc = "returned"
       /\ PreferredLanguage(call.input.use_case) \in {"go", "java"}) =>
        LET out == call.output
        IN  /\ Len(out) >= 1
            /\ out[1].language = Title(PreferredLanguage(call.input.use_case))
            /\ out[1].is_recommended
            /\ \E i \in 1..Len(out) :
                 out[i].language = "Python" /\ ~out[i].is_recommended
            /\ \E i \in 1..Len(out) :
                 out[i].language \in {"TypeScript", "JavaScript"}
                    /\ ~out[i].is_recommended
            /\ out[Len(out)].language = "Any"
            /\ ~out[Len(out)].is_recommended

-----------------------------------------------------------------------------
(* One pipeline and the subscribers of its progress stream                 *)

\* The clients that open the progress stream.
Watchers == {"s1"}

\* create_project has stored project p1 and submitted its task.
InitStream ==
    /\ AuxUnused
    /\ clock = 0
    /\ redis = [ip \in Ips |-> {}]
    /\ redis_ttl = [ip \in Ips |-> -1]
    /\ rl = [c \in Calls |-> RlIdle]
    /\ rl_last = NoneReturned
    /\ ChannelUnused
    /\ projects = [p \in ProjectIds |->
                     IF p = "p1"
                     THEN [NoRow EXCEPT !.status = "PENDING", !.name = "n1",
                                        !.base_url = BaseUrl(Url("https", "a", "/docs")),
                                        !.use_case = "u1"]
                     ELSE NoRow]
    /\ job = [p \in ProjectIds |->
                IF p = "p1"
                THEN [NoTask EXCEPT !.pc = "queued", !.use_case = "u1"]
                ELSE NoTask]
    /\ hours = 0
    /\ cp_last = [NoResponse EXCEPT !.kind = "created"]

NextStream ==
    \/ \E j \in ProjectIds : Pipeline(j)
    \/ \E s \in Watchers, j \in ProjectIds : subscribe(s, j)
    \/ \E s \in Watchers : subscribe_replay_next(s)
    \/ \E s \in Watchers : subscribe_replay_end(s)
    \/ \E s \in Watchers : subscribe_receive(s)
    \/ \E s \in Watchers : subscribe_timeout(s)
    \/ \E s \in Watchers : subscribe_disconnect(s)

SpecStream == InitStream /\ [][NextStream]_vars

-----------------------------------------------------------------------------
(* The service: submissions, their pipelines, deletions                    *)

Init ==
    /\ AuxUnused
    /\ clock = 0
    /\ redis = [ip \in Ips |-> {}]
    /\ redis_ttl = [ip \in Ips |-> -1]
    /\ rl = [c \in Calls |-> RlIdle]
    /\ rl_last = NoneReturned
    /\ ChannelUnused
    /\ JobsUnused

Next ==
    \/ \E payload \in Payloads : create_project(payload)
    \/ \E payload \in Payloads : create_project_denied(payload)
    \/ \E j \in ProjectIds : Pipeline(j)
    \/ \E j \in ProjectIds : run_commit_stale(j)
    \/ \E j \in ProjectIds : delete_project(j)

Spec == Init /\ [][Next]_vars

-----------------------------------------------------------------------------
(* create_project against a store that holds the projects of earlier runs  *)

StoredStatuses == {"PENDING", "SCRAPING", "PARSING", "COMPLETED", "FAILED"}

\* A row an earlier run of the service left in the store.
StoredRow(status, base_url, created_at) ==
    [NoRow EXCEPT !.status = status, !.name = "n1", !.use_case = "u1",
                  !.base_url = base_url, !.created_at = created_at,
                  !.raw_content = status \in {"PARSING", "COMPLETED"},
                  !.integration_suggestions = status = "COMPLETED",
                  !.api_name = status = "COMPLETED",
                  !.endpoints = IF status = "COMPLETED" THEN 2 ELSE 0]

StoredRows ==
    {NoRow} \cup {StoredRow(st, BaseUrl(x.url), c) :
                     st \in StoredStatuses, x \in Payloads, c \in 0..MaxHours}

\* The task of a stored row ended with the process that ran it.
StoredTasks ==
    {NoTask} \cup {[NoTask EXCEPT !.pc = "ended", !.completed_at = c] :
                     c \in -1..MaxHours}

\* The service starts: the log store of the process is empty, the project
\* store holds rows created, and completed, at earlier hours.
InitCache ==
    /\ AuxUnused
    /\ clock = 0
    /\ redis = [ip \in Ips |-> {}]
    /\ redis_ttl = [ip \in Ips |-> -1]
    /\ rl = [c \in Calls |-> RlIdle]
    /\ rl_last = NoneReturned
    /\ ChannelUnused
    /\ hours \in 0..MaxHours
    /\ cp_last = NoResponse
    /\ projects \in [ProjectIds -> StoredRows]
    /\ job \in [ProjectIds -> StoredTasks]
    /\ \A j \in ProjectIds :
         /\ Exists(j) <=> job[j].pc = "ended"
         /\ projects[j].created_at <= hours
         /\ job[j].completed_at # -1 <=> projects[j].status = "COMPLETED"
         /\ job[j].completed_at # -1 =>
               /\ projects[j].created_at <= job[j].completed_at
               /\ job[j].completed_at <= hours

NextCache ==
    \/ \E payload \in Payloads : create_project(payload)
    \/ \E payload \in Payloads : create_project_denied(payload)
    \/ \E payload \in Payloads : create_project_raise(payload)
    \/ \E j \in ProjectIds : delete_project(j)
    \/ TickHour

SpecCache == InitCache /\ [][NextCache]_vars

-----------------------------------------------------------------------------
(* Properties of the progress stream                                       *)

\* The log of the subscriber's job ended with a sentinel when it subscribed.
Late(s) ==
    /\ sub[s].pc \in {"replay", "live", "closed"}
    /\ sub[s].snap > 0
    /\ logs[sub[s].project][sub[s].snap] \in Sentinels

\* C1: a consumer that subscribes after the job has finished is sent the
\* stored history, sentinel included, and then the stream closes: such a
\* subscriber is never left waiting on its queue for further events.
C1_LateSubscriberCloses ==
    \A s \in Subs : Late(s) => sub[s].pc # "live"

\* The events delivered to s, heartbeats left out.
Events(s) == SelectSeq(sub[s].out, LAMBDA m : m # "ping")

\* The index at which message m was appended.
Pos(m, log) == CHOOSE i \in 1..Len(log) : log[i] = m

\* C2: every subscriber sees the events of its job in the order in which
\* they were appended: of two events delivered, the one delivered first
\* was not appended after the other.
C2_OrderPreserved ==
    \A s \in Subs :
        \A i, k \in 1..Len(Events(s)) :
            i < k => Pos(Events(s)[i], logs[sub[s].project])
                       <= Pos(Events(s)[k], logs[sub[s].project])

-----------------------------------------------------------------------------
(* Properties of the job state machine                                     *)

Ended(j) == job[j].pc \in {"done", "crashed"}

\* C18: in every reachable state the log of a job holds at most one
\* sentinel, DONE or FAILED and never both, and nothing after it: a
\* sentinel in the log is its last element.
C18_SentinelIsLast ==
    \A j \in ProjectIds :
        \A i \in 1..Len(logs[j]) :
            logs[j][i] \in Sentinels => i = Len(logs[j])

\* One task has ended after DONE, another after FAILED, each log with more
\* events before the sentinel.
C18_Witness ==
    \E j, k \in ProjectIds :
        /\ Ended(j) /\ Len(logs[j]) > 2 /\ logs[j][Len(logs[j])] = "DONE"
        /\ Ended(k) /\ Len(logs[k]) > 2 /\ logs[k][Len(logs[k])] = "FAILED"

\* The subscriber subscribed while its job was running: the log held no
\* sentinel then.
SubscribedRunning(s) ==
    /\ sub[s].pc \in {"replay", "live", "closed"}
    /\ ~Late(s)

\* C19: a subscriber that subscribes while the job is running is delivered
\* every event of the job exactly once: never an event twice, and all the
\* events of the log, in its order, when the stream has closed.
C19_ExactlyOnce ==
    \A s \in Subs :
        SubscribedRunning(s) =>
            /\ \A i, k \in 1..Len(Events(s)) :
                 Events(s)[i] = Events(s)[k] => i = k
            /\ sub[s].pc = "closed" => Events(s) = logs[sub[s].project]

\* C20: a subscriber that was past the replay when the sentinel was appended
\* is delivered the sentinel last, its stream closes and its queue leaves
\* the listener list; one that disconnects leaves it too: the listener list
\* of a job holds the queues of the open subscribers of that job only.
C20_ClosedAndRemoved ==
    /\ \A s \in Subs :
         sub[s].pc = "closed" =>
            /\ sub[s].out[Len(sub[s].out)] \in Sentinels
            /\ \A j \in ProjectIds : ~InSeq(s, listeners[j])
    /\ \A j \in ProjectIds : \A s \in Subs :
         InSeq(s, listeners[j]) =>
            /\ sub[s].pc \in {"replay", "live"}
            /\ sub[s].project = j

\* One step of the job state machine.
Forward(a, b) ==
    \/ a = b
    \/ <<a, b>> \in {<<"PENDING", "SCRAPING">>, <<"SCRAPING", "PARSING">>,
                     <<"PARSING", "COMPLETED">>}
    \/ a \in {"PENDING", "SCRAPING", "PARSING"} /\ b = "FAILED"

\* C3: the recorded state of a job only moves forward, PENDING to SCRAPING
\* to PARSING to COMPLETED, or to FAILED from a state that is not terminal;
\* no step moves it backward and none leaves COMPLETED or FAILED.
C3_StatusMonotonic ==
    [][\A j \in ProjectIds :
          (Exists(j) /\ projects'[j].status # "ABSENT")
              => Forward(projects[j].status, projects'[j].status)]_vars

\* One job failed while PARSING, another is COMPLETED and was returned by
\* the cache check, which rewrote its name.
C3_Witness ==
    \E j, k \in ProjectIds :
        /\ projects[j].status = "FAILED" /\ job[j].error = "llm"
        /\ projects[k].status = "COMPLETED" /\ job[k].pc = "done"
        /\ cp_last = [kind |-> "cached", id |-> k]

\* C4: every started job reaches COMPLETED or FAILED: when its task has
\* ended, the recorded state is one of the two.
C4_EndedJobIsTerminal ==
    \A j \in ProjectIds :
        Ended(j) => projects[j].status \in {"COMPLETED", "FAILED"}

\* The last element of the log that is not a sentinel.
LastEvent(log) ==
    LET events == SelectSeq(log, LAMBDA m : m \notin Sentinels)
    IN  IF events = <<>> THEN "" ELSE events[Len(events)]

\* C5: after a failure (an exception caught by the task, the task ended)
\* the recorded state of the job is FAILED and the last event of its log
\* that is not a sentinel is the error message.
C5_FailureRecorded ==
    \A j \in ProjectIds :
        (Ended(j) /\ job[j].error # "" /\ Exists(j))
            => /\ projects[j].status = "FAILED"
               /\ LastEvent(logs[j]) = ErrorMsg(job[j].error)

\* C6: a crawl that returns no page is a failure of the pipeline: the
\* extractor is not invoked on the empty content and the job does not
\* complete.
C6_EmptyCrawlFails ==
    \A j \in ProjectIds :
        job[j].pages = 0
            => /\ job[j].pc # "parse"
               /\ projects[j].status # "COMPLETED"

\* C21: whenever the FAILED sentinel is in the log of a job (a subscriber
\* may have received it already) the status stored for the job is FAILED:
\* who polls the job after the sentinel reads no status that is not terminal.
C21_FailedIsPersisted ==
    \A j \in ProjectIds :
        (Exists(j) /\ InSeq("FAILED", logs[j])) => projects[j].status = "FAILED"

\* C22: whenever the DONE sentinel is in the log of a job, the status stored
\* for the job (while its record exists) is COMPLETED, the commit of the
\* status having come before the sentinel; and DONE is not logged for a job
\* whose pipeline raised: such a log holds no error and no FAILED sentinel.
C22_DoneIsPersisted ==
    \A j \in ProjectIds :
        InSeq("DONE", logs[j])
            => /\ Exists(j) => projects[j].status = "COMPLETED"
               /\ job[j].error = ""
               /\ ~InSeq("FAILED", logs[j])
               /\ \A i \in 1..Len(logs[j]) :
                     \A e \in {"db", "llm", "NoResultFound", "StaleDataError"} :
                        logs[j][i] # ErrorMsg(e)

\* One job logged DONE and is COMPLETED; another raised after its crawl,
\* logged FAILED and ended with status FAILED.
C22_Witness ==
    \E j, k \in ProjectIds :
        /\ InSeq("DONE", logs[j]) /\ projects[j].status = "COMPLETED"
        /\ job[k].error # "" /\ Ended(k) /\ projects[k].status = "FAILED"
        /\ job[k].pages # -1

\* C23: a job whose stored status is COMPLETED has its schema (name,
\* description, auth), all the endpoints the extractor returned and its
\* suggestions stored too; and the stages of a job run in the order crawl,
\* extract, advise, persist: nothing of a stage is there before the stage
\* that precedes it has returned.
C23_CompletedIsWhole ==
    \A j \in ProjectIds :
        /\ projects[j].status = "COMPLETED"
              => /\ projects[j].api_name
                 /\ projects[j].integration_suggestions
                 /\ projects[j].raw_content
                 /\ job[j].endpoints \in EndpointCounts
                 /\ projects[j].endpoints = job[j].endpoints
        /\ projects[j].status # "COMPLETED" /\ Exists(j)
              => ~projects[j].api_name /\ projects[j].endpoints = 0
        /\ job[j].endpoints # -1 => job[j].pages # -1
        /\ projects[j].raw_content => job[j].pages # -1
        /\ projects[j].integration_suggestions
              => job[j].endpoints # -1 /\ projects[j].raw_content

\* One job is COMPLETED with its two endpoints stored; of another, still
\* PARSING, the suggestions are stored and the schema is not.
C23_Witness ==
    \E j, k \in ProjectIds :
        /\ projects[j].status = "COMPLETED" /\ projects[j].endpoints = 2
        /\ projects[k].status = "PARSING"
        /\ projects[k].integration_suggestions
        /\ job[k].endpoints = 2

-----------------------------------------------------------------------------
(* Properties of the result cache                                          *)

\* A create_project call with body payload, whatever its outcome.
Submit(payload) ==
    \/ create_project(payload)
    \/ create_project_denied(payload)
    \/ create_project_raise(payload)

Rows == {j \in ProjectIds : Exists(j)}

\* The jobs of this base URL that completed within the last CacheHours.
CompletedRecently(base_url) ==
    {j \in Rows : /\ projects[j].base_url = base_url
                  /\ projects[j].status = "COMPLETED"
                  /\ hours - job[j].completed_at <= CacheHours}

\* The completed jobs of this base URL created within the last CacheHours.
CreatedRecently(base_url) ==
    {j \in Rows : /\ projects[j].base_url = base_url
                  /\ projects[j].status = "COMPLETED"
                  /\ hours - projects[j].created_at <= CacheHours}

Kept(row) ==
    [status |-> row.status, base_url |-> row.base_url,
     created_at |-> row.created_at, raw_content |-> row.raw_content,
     api_name |-> row.api_name, endpoints |-> row.endpoints,
     integration_suggestions |-> row.integration_suggestions]

\* The step answered from the cache: of the record returned only name and
\* use_case change, no other record changes, none is created, no task is
\* submitted.
HitFrame(payload) ==
    /\ cp_last'.kind = "cached"
    /\ cp_last'.id \in Rows
    /\ Kept(projects'[cp_last'.id]) = Kept(projects[cp_last'.id])
    /\ projects'[cp_last'.id].name = payload.name
    /\ projects'[cp_last'.id].use_case = payload.use_case
    /\ \A j \in ProjectIds \ {cp_last'.id} : projects'[j] = projects[j]
    /\ job' = job

\* The step created one PENDING record and submitted one task, for it.
Creates(payload) ==
    /\ cp_last'.kind = "created"
    /\ cp_last'.id \notin Rows
    /\ projects'[cp_last'.id].status = "PENDING"
    /\ projects'[cp_last'.id].base_url = BaseUrl(payload.url)
    /\ \A j \in ProjectIds \ {cp_last'.id} : projects'[j] = projects[j]
    /\ job[cp_last'.id].pc = "none"
    /\ job'[cp_last'.id].pc = "queued"
    /\ \A j \in ProjectIds \ {cp_last'.id} : job'[j] = job[j]

InitLimiter ==
    /\ AuxUnused
    /\ clock = 0
    /\ redis = [ip \in Ips |-> {}]
    /\ redis_ttl = [ip \in Ips |-> -1]
    /\ rl = [c \in Calls |-> RlIdle]
    /\ rl_last = NoneReturned
    /\ ChannelUnused
    /\ JobsUnused

NextLimiter ==
    \/ \E c \in Calls, ip \in Ips : check_rate_limit_begin(c, ip)
    \/ \E c \in Calls, ip \in Ips : check_rate_limit_connect_error(c, ip)
    \/ \E c \in Calls : check_rate_limit_return(c)
    \/ \E c \in Calls : check_rate_limit_execute_error(c)
    \/ \E c \in Calls : check_rate_limit_close_error(c)
    \/ Tick

SpecLimiter == InitLimiter /\ [][NextLimiter]_vars

(* C8: an invocation that finds Limit or more earlier invocations of its     *)
(* origin inside its window (their batches executed, timestamps newer than   *)
(* now - window_seconds, same second included) is denied.                    *)
C8_DeniedAtLimit ==
    (rl_last.call # 0 /\ rl_last.failed = "no" /\ rl_last.prior >= Limit)
        => rl_last.result.allowed = FALSE

(* C9: entries at or before now - window_seconds are not counted, and an     *)
(* invocation made more than window_seconds after every earlier invocation   *)
(* of its origin is allowed.                                                 *)
C9_WindowExpiry ==
    (rl_last.call # 0 /\ rl_last.failed = "no") =>
        /\ rl_last.count <=
               Cardinality({s \in rl_last.earlier : s > rl_last.now - WindowSeconds})
        /\ (\A s \in rl_last.earlier : rl_last.now - s > WindowSeconds)
               => rl_last.result = [allowed |-> TRUE, retry_after |-> 0, raised |-> FALSE]

\* An invocation is allowed after the origin's earlier ones, which had
\* reached the limit, have all left the window.
C9_Witness ==
    /\ rl_last.call # 0 /\ rl_last.failed = "no"
    /\ rl_last.result.allowed
    /\ rl_last.earlier # {}
    /\ \A s \in rl_last.earlier : rl_last.now - s > WindowSeconds
    /\ Cardinality({d \in Calls \ {rl_last.call} :
                       rl[d].recorded /\ rl[d].ip = rl_last.ip}) >= Limit

(* C10: an invocation in which an operation on Redis raised (making the      *)
(* client, executing the batch, closing) returns (True, 0) and raises        *)
(* nothing.                                                                  *)
C10_FailOpen ==
    (rl_last.call # 0 /\ rl_last.failed # "no")
        => rl_last.result = [allowed |-> TRUE, retry_after |-> 0, raised |-> FALSE]

\* The close raised after a batch that counted Limit entries: the attempt
\* is recorded and over the limit, and still allowed.
C10_Witness ==
    /\ rl_last.call # 0
    /\ rl_last.failed = "close"
    /\ rl_last.count >= Limit
    /\ rl[rl_last.call].recorded

\* The counter store reachable: no operation on Redis raises.
NextCap ==
    \/ \E c \in Calls, ip \in Ips : check_rate_limit_begin(c, ip)
    \/ \E c \in Calls : check_rate_limit_return(c)
    \/ Tick

SpecCap == InitLimiter /\ [][NextCap]_vars

\* The invocations of an origin that returned True with a timestamp in the
\* window_seconds seconds that end at second t.
AllowedIn(ip, t) ==
    {c \in Calls : /\ rl[c].pc = "done"
                    /\ rl[c].ip = ip
                    /\ rl[c].allowed
                    /\ t - WindowSeconds < rl[c].now
                    /\ rl[c].now <= t}

(* C24: with the counter store reachable, of the invocations of one origin   *)
(* at most Limit are allowed within any window_seconds seconds, whatever     *)
(* the interleaving; and every attempt, denied ones included, is recorded.   *)
C24_LimiterCap ==
    /\ \A ip \in Ips, t \in 0..MaxClock : Cardinality(AllowedIn(ip, t)) <= Limit
    /\ \A c \in Calls : rl[c].pc = "done" => rl[c].recorded

=============================================================================
